---- MODULE Spec2Model ----
(***************************************************************************)
(* Upload / finalize / serve contract of the screen-recorder service       *)
(* (src/fuck.py).  The storage directory is a map from paths to files; a   *)
(* file carries its bytes and its modification time.  Time is counted in   *)
(* ticks finer than a second; every write to the directory is stamped with *)
(* the current tick and the clock then moves on, so two writes never carry *)
(* the same stamp (st_mtime has sub-second resolution), while the listing  *)
(* formats stamps down to whole seconds exactly as strftime does.          *)
(***************************************************************************)
EXTENDS Integers, Sequences, FiniteSets, TLC

\* ---------------------------------------------------------------- bounds
MaxTime == 4
TicksPerSec == 2
MaxChunks == 2
MaxReqs == 3

\* ------------------------------------------------------------ vocabulary
Sessions == {"s1", "s2"}

\* request.get_data(): the raw request bodies the clients send
Bodies == {<<1>>, <<2>>}

WebmExt == ".webm"
PartialExt == ".webm.partial"
Mp4Ext == ".mp4"
JpgExt == ".jpg"
Exts == {PartialExt, WebmExt, Mp4Ext, JpgExt}

\* os.path.join(VIDEO_DIR, f"{session_id}{ext}")
SessionPath(session_id, ext) == <<session_id, ext>>
Paths == {SessionPath(s, e) : s \in Sessions, e \in Exts}

\* os.path.basename: the directory part is dropped, the name stays
Basename(path) == path
\* os.path.splitext(webm_path)[0] + ".mp4"
Mp4PathOf(webm_path) == <<webm_path[1], Mp4Ext>>

Null == <<>>
NoFile == [exists |-> FALSE, bytes |-> <<>>, mtime |-> 0]
MkFile(b, t) == [exists |-> TRUE, bytes |-> b, mtime |-> t]

VARIABLES
    now,        \* the clock, in ticks
    disk,       \* VIDEO_DIR: path -> file
    resp,       \* the response of the last request handled
    sent,       \* history: bodies uploaded for a session since its partial was last absent
    consumed,   \* history: bodies that were in the partial when it was renamed
    renames,    \* history: number of renames partial -> webm per session
    xcodeRuns,  \* history: number of transcoder runs started per session
    xcodeOk,    \* history: a transcoder run for the session has exited with 0
    snapLog,    \* history: the snapshot uploads so far, <<session, body>> in order
    reqs        \* requests being handled concurrently, each at its own step

vars == <<now, disk, resp, sent, consumed, renames, xcodeRuns, xcodeOk, snapLog, reqs>>
hist == <<sent, consumed, renames, xcodeRuns, xcodeOk, snapLog, reqs>>

Exists(d, path) == d[path].exists

RECURSIVE Flatten(_)
Flatten(ss) == IF ss = <<>> THEN <<>> ELSE Head(ss) \o Flatten(Tail(ss))

RECURSIVE SumLen(_)
SumLen(ss) == IF ss = <<>> THEN 0 ELSE Len(Head(ss)) + SumLen(Tail(ss))

\* -------------------------------------------------------------- responses
NoResp ==
    [op |-> "none", session |-> "", code |-> 0, ok |-> FALSE, keys |-> {},
     webm |-> Null, mp4 |-> Null, file |-> Null, body |-> <<>>, received |-> 0,
     videos |-> <<>>]

\* a request in flight: which handler, its position in the handler, the file
\* its open handle refers to, what the transcoder will do, and its response
\* (onlyPartial is history: the request arrived while only the partial existed)
ReqIds == 1..MaxReqs
IdleReq ==
    [kind |-> "idle", session |-> "", pc |-> "idle", data |-> <<>>, fd |-> "none",
     outcome |-> "none", onlyPartial |-> FALSE, resp |-> NoResp]

\* ------------------------------------------------------------ file system
\* open(path, "ab"): create the file if absent
OpenAppend(d, path, t) ==
    IF Exists(d, path) THEN d ELSE [d EXCEPT ![path] = MkFile(<<>>, t)]

\* f.write(data) on a handle opened for append: the bytes go to the end of
\* the file the handle refers to; an empty write issues no system call
WriteAppend(d, path, data, t) ==
    IF data = <<>> THEN d ELSE [d EXCEPT ![path] = MkFile(@.bytes \o data, t)]

\* the same with the file opened "wb": each chunk replaces the file
AppendTo_truncating(d, path, data, t) == [d EXCEPT ![path] = MkFile(data, t)]

\* with open(path, "ab") as f: f.write(data), nothing else in between
AppendTo(d, path, data, t) == WriteAppend(OpenAppend(d, path, t), path, data, t)

\* the same with the file opened "ab": each snapshot is added to the last
OverwriteWith_appending(d, path, data, t) ==
    [d EXCEPT ![path] = MkFile((IF Exists(d, path) THEN d[path].bytes ELSE <<>>) \o data, t)]

\* open(path, "wb") then write(data): truncate and write
OverwriteWith(d, path, data, t) == [d EXCEPT ![path] = MkFile(data, t)]

\* shutil.move(src, dst) inside one directory: os.rename, the file keeps its
\* bytes and stamp and replaces whatever dst named
Move(d, src, dst) == [d EXCEPT ![dst] = d[src], ![src] = NoFile]

Init ==
    /\ now = 0
    /\ disk = [p \in Paths |-> NoFile]
    /\ resp = NoResp
    /\ sent = [s \in Sessions |-> <<>>]
    /\ consumed = [s \in Sessions |-> <<>>]
    /\ renames = [s \in Sessions |-> 0]
    /\ xcodeRuns = [s \in Sessions |-> 0]
    /\ xcodeOk = [s \in Sessions |-> FALSE]
    /\ snapLog = <<>>
    /\ reqs = [i \in ReqIds |-> IdleReq]

\* time passes between requests
Tick ==
    /\ now < MaxTime
    /\ now' = now + 1
    /\ UNCHANGED <<disk, resp, hist>>

\* POST /upload/<session_id>
upload_chunk(session_id, data) ==
    LET partial_path == SessionPath(session_id, PartialExt)
        d2 == AppendTo(disk, partial_path, data, now)
    IN  /\ now < MaxTime
        /\ Len(sent[session_id]) < MaxChunks
        /\ disk' = d2
        /\ now' = now + 1
        /\ resp' = [NoResp EXCEPT !.op = "upload", !.session = session_id,
                                  !.code = 200, !.keys = {"X-Received-Bytes"},
                                  !.received = Len(d2[partial_path].bytes)]
        /\ sent' = [sent EXCEPT ![session_id] = Append(@, data)]
        /\ UNCHANGED <<consumed, renames, xcodeRuns, xcodeOk, snapLog, reqs>>

\* ------------------------------------------------------------- transcoder
\* What the external ffmpeg can do on one finalize: the binary is missing
\* (the version probe fails), it exits with 0 after writing the output, it
\* exits non-zero before creating the output, or it exits non-zero (or is
\* killed) after creating the output and before completing it.
TranscoderOutcomes == {"missing", "ok", "fail", "fail_partial"}

\* _ffmpeg_available()
FfmpegAvailable(outcome) == outcome # "missing"

\* the bytes ffmpeg writes for an input: a header, then the re-encoded stream
Encode(b) == <<0>> \o b
\* what is on disk of an output that was opened and never completed
Incomplete == <<>>

\* ffmpeg opens its output ("-y": an existing one is truncated)
FfmpegOpenOutput(d, webm_path, t) ==
    [d EXCEPT ![Mp4PathOf(webm_path)] = MkFile(Incomplete, t)]

\* ffmpeg completes its output
FfmpegWriteOutput(d, webm_path, t) ==
    [d EXCEPT ![Mp4PathOf(webm_path)] = MkFile(Encode(d[webm_path].bytes), t)]

\* subprocess.run(cmd, check=True): the effect of a whole run on the directory
RunFfmpeg(d, webm_path, outcome, t) ==
    CASE outcome = "ok" /\ Exists(d, webm_path) -> FfmpegWriteOutput(d, webm_path, t)
      [] outcome = "fail_partial" /\ Exists(d, webm_path) -> FfmpegOpenOutput(d, webm_path, t)
      [] OTHER -> d

\* True when subprocess.run returns normally (exit status 0)
FfmpegExitsZero(d, webm_path, outcome) == outcome = "ok" /\ Exists(d, webm_path)

\* the same with the exit status of ffmpeg ignored (no check=True)
FinalizeToMp4_unchecked(dAfter, dBefore, webm_path, outcome) ==
    LET mp4_path == Mp4PathOf(webm_path)
    IN  IF ~FfmpegAvailable(outcome) THEN Null
        ELSE IF Exists(dAfter, mp4_path) THEN mp4_path ELSE Null

\* _finalize_to_mp4(webm_path): the returned path (Null for None), given the
\* directory as the run left it
FinalizeToMp4(dAfter, dBefore, webm_path, outcome) ==
    LET mp4_path == Mp4PathOf(webm_path)
    IN  IF ~FfmpegAvailable(outcome) THEN Null
        ELSE IF FfmpegExitsZero(dBefore, webm_path, outcome) /\ Exists(dAfter, mp4_path)
             THEN mp4_path
             ELSE Null

\* the answer of the superseded handler (src/app.py): always a success
FinalizeNotFound_always_ok(session_id) ==
    [NoResp EXCEPT !.op = "finalize", !.session = session_id, !.code = 200,
                   !.ok = TRUE, !.keys = {"ok", "final"}]

\* the early branches of finalize: 404 when nothing was recorded, the
\* idempotent answer when the finalized file is already there
FinalizeNotFound(session_id) ==
    [NoResp EXCEPT !.op = "finalize", !.session = session_id, !.code = 404,
                   !.ok = FALSE, !.keys = {"ok", "error"}]

FinalizeAlready(d, session_id) ==
    LET webm_path == SessionPath(session_id, WebmExt)
        mp4_path == Mp4PathOf(webm_path)
        has == Exists(d, mp4_path)
    IN  [NoResp EXCEPT !.op = "finalize", !.session = session_id, !.code = 200,
                       !.ok = TRUE,
                       !.keys = IF has THEN {"ok", "webm", "mp4"} ELSE {"ok", "webm"},
                       !.webm = Basename(webm_path),
                       !.mp4 = IF has THEN Basename(mp4_path) ELSE Null]

\* the response of the branch that renamed and transcoded
FinalizeFresh(d, session_id, mp4_ret) ==
    LET webm_path == SessionPath(session_id, WebmExt)
    IN  [NoResp EXCEPT !.op = "finalize", !.session = session_id, !.code = 200,
                       !.ok = TRUE, !.keys = {"ok", "webm", "mp4", "at"},
                       !.webm = IF Exists(d, webm_path) THEN Basename(webm_path) ELSE Null,
                       !.mp4 = IF mp4_ret # Null /\ Exists(d, mp4_ret)
                               THEN Basename(mp4_ret) ELSE Null]

\* finalize with the rename tested before the finalized file: a partial left
\* by later uploads replaces the finalized video and is transcoded again
finalize_rename_first(session_id, outcome) ==
    LET partial_path == SessionPath(session_id, PartialExt)
        webm_path == SessionPath(session_id, WebmExt)
        moved == IF Exists(disk, partial_path)
                 THEN Move(disk, partial_path, webm_path) ELSE disk
        ran == FfmpegAvailable(outcome)
        after == IF ran THEN RunFfmpeg(moved, webm_path, outcome, now) ELSE moved
        mp4_ret == FinalizeToMp4(after, moved, webm_path, outcome)
    IN  IF ~Exists(disk, partial_path) /\ ~Exists(disk, webm_path)
        THEN /\ resp' = FinalizeNotFound(session_id)
             /\ UNCHANGED <<now, disk, hist>>
        ELSE IF ~Exists(disk, partial_path)
        THEN /\ resp' = FinalizeAlready(disk, session_id)
             /\ UNCHANGED <<now, disk, hist>>
        ELSE /\ now < MaxTime
             /\ disk' = after
             /\ now' = IF after # moved THEN now + 1 ELSE now
             /\ resp' = FinalizeFresh(after, session_id, mp4_ret)
             /\ renames' = [renames EXCEPT ![session_id] = @ + 1]
             /\ consumed' = [consumed EXCEPT ![session_id] = sent[session_id]]
             /\ sent' = [sent EXCEPT ![session_id] = <<>>]
             /\ xcodeRuns' = [xcodeRuns EXCEPT ![session_id] = IF ran THEN @ + 1 ELSE @]
             /\ xcodeOk' = [xcodeOk EXCEPT ![session_id] =
                               @ \/ FfmpegExitsZero(moved, webm_path, outcome)]
             /\ UNCHANGED <<snapLog, reqs>>

\* POST /finalize/<session_id>, handled without any other request in between
finalize(session_id, outcome) ==
    LET partial_path == SessionPath(session_id, PartialExt)
        webm_path == SessionPath(session_id, WebmExt)
        moved == IF Exists(disk, partial_path)
                 THEN Move(disk, partial_path, webm_path) ELSE disk
        ran == FfmpegAvailable(outcome)
        after == IF ran THEN RunFfmpeg(moved, webm_path, outcome, now) ELSE moved
        mp4_ret == FinalizeToMp4(after, moved, webm_path, outcome)
    IN  IF ~Exists(disk, partial_path) /\ ~Exists(disk, webm_path)
        THEN /\ resp' = FinalizeNotFound(session_id)
             /\ UNCHANGED <<now, disk, hist>>
        ELSE IF Exists(disk, webm_path)
        THEN /\ resp' = FinalizeAlready(disk, session_id)
             /\ UNCHANGED <<now, disk, hist>>
        ELSE /\ now < MaxTime
             /\ disk' = after
             /\ now' = IF after # moved THEN now + 1 ELSE now
             /\ resp' = FinalizeFresh(after, session_id, mp4_ret)
             /\ renames' = [renames EXCEPT ![session_id] =
                               IF Exists(disk, partial_path) THEN @ + 1 ELSE @]
             /\ consumed' = [consumed EXCEPT ![session_id] = sent[session_id]]
             /\ sent' = [sent EXCEPT ![session_id] = <<>>]
             /\ xcodeRuns' = [xcodeRuns EXCEPT ![session_id] = IF ran THEN @ + 1 ELSE @]
             /\ xcodeOk' = [xcodeOk EXCEPT ![session_id] =
                               @ \/ FfmpegExitsZero(moved, webm_path, outcome)]
             /\ UNCHANGED <<snapLog, reqs>>

\* POST /snapshot/<session_id>
snapshot(session_id, data) ==
    LET snap_path == SessionPath(session_id, JpgExt)
    IN  /\ now < MaxTime
        /\ disk' = OverwriteWith(disk, snap_path, data, now)
        /\ now' = now + 1
        /\ resp' = [NoResp EXCEPT !.op = "snapshot", !.session = session_id,
                                  !.code = 200, !.ok = TRUE,
                                  !.keys = {"ok", "at", "file"},
                                  !.file = Basename(snap_path)]
        /\ snapLog' = Append(snapLog, <<session_id, data>>)
        /\ UNCHANGED <<sent, consumed, renames, xcodeRuns, xcodeOk, reqs>>

\* ---------------------------------------------------------------- listing
\* the order in which glob enumerates the directory: any order of the names
Orders == {o \in [1..Cardinality(Sessions) -> Sessions] :
              \A i, j \in DOMAIN o : i # j => o[i] # o[j]}

\* glob.glob(os.path.join(VIDEO_DIR, "*" + ext)) under an enumeration order
RECURSIVE GlobFrom(_, _, _, _)
GlobFrom(d, ext, order, i) ==
    IF i > Len(order) THEN <<>>
    ELSE LET path == SessionPath(order[i], ext)
         IN  (IF Exists(d, path) THEN <<path>> ELSE <<>>) \o GlobFrom(d, ext, order, i + 1)

Glob(d, ext, order) == GlobFrom(d, ext, order, 1)

\* datetime.utcfromtimestamp(st_mtime).strftime("%Y-%m-%dT%H:%M:%SZ"): the
\* stamp cut down to whole seconds (the strings compare as the seconds do)
FormatMtime(t) == t \div TicksPerSec

\* list.sort(key=..., reverse=True) over <<key, item>> pairs: descending and
\* stable, items with equal keys keep the order they had
RECURSIVE InsertDesc(_, _)
InsertDesc(sorted, e) ==
    IF sorted = <<>> THEN <<e>>
    ELSE IF Head(sorted)[1] >= e[1] THEN <<Head(sorted)>> \o InsertDesc(Tail(sorted), e)
    ELSE <<e>> \o sorted

RECURSIVE SortDescFrom(_, _)
SortDescFrom(acc, rest) ==
    IF rest = <<>> THEN acc ELSE SortDescFrom(InsertDesc(acc, Head(rest)), Tail(rest))

SortDesc(pairs) == [i \in 1..Len(pairs) |-> SortDescFrom(<<>>, pairs)[i][2]]

VideoEntry(d, path, kind) ==
    [filename |-> Basename(path), bytes |-> Len(d[path].bytes),
     modified |-> FormatMtime(d[path].mtime), type |-> kind]

\* _list_videos()
ListVideos(d, order) ==
    LET mp4s == Glob(d, Mp4Ext, order)
        webms == Glob(d, WebmExt, order)
        files == [i \in 1..Len(mp4s) |-> VideoEntry(d, mp4s[i], "mp4")]
                 \o [i \in 1..Len(webms) |-> VideoEntry(d, webms[i], "webm")]
    IN  SortDesc([i \in 1..Len(files) |-> <<files[i].modified, files[i]>>])

\* GET /status
status(order) ==
    /\ resp' = [NoResp EXCEPT !.op = "status", !.code = 200, !.ok = TRUE,
                              !.keys = {"ok", "videos", "server_time"},
                              !.videos = ListVideos(disk, order)]
    /\ UNCHANGED <<now, disk, hist>>

\* the loop of latest(): the first entry whose name ends in ".mp4", else the
\* first entry
Preferred(vids) ==
    LET mp4At == {i \in 1..Len(vids) : vids[i].filename[2] = Mp4Ext}
    IN  IF mp4At = {} THEN vids[1]
        ELSE vids[CHOOSE i \in mp4At : \A j \in mp4At : i <= j]

\* GET /latest
latest(order) ==
    LET vids == ListVideos(disk, order)
    IN  /\ resp' = IF vids = <<>>
                   THEN [NoResp EXCEPT !.op = "latest", !.code = 404, !.ok = FALSE,
                                       !.keys = {"ok", "error"}]
                   ELSE [NoResp EXCEPT !.op = "latest", !.code = 200,
                                       !.file = Preferred(vids).filename,
                                       !.body = disk[Preferred(vids).filename].bytes]
        /\ UNCHANGED <<now, disk, hist>>

\* sorted(glob("*.jpg"), key=os.path.getmtime, reverse=True)
SortedSnaps(d, order) ==
    LET snaps == Glob(d, JpgExt, order)
    IN  SortDesc([i \in 1..Len(snaps) |-> <<d[snaps[i]].mtime, snaps[i]>>])

\* GET /snapshot/latest
snapshot_latest(order) ==
    LET snaps == SortedSnaps(disk, order)
    IN  /\ resp' = IF snaps = <<>>
                   THEN [NoResp EXCEPT !.op = "snapshot_latest", !.code = 404,
                                       !.ok = FALSE, !.keys = {"ok", "error"}]
                   ELSE [NoResp EXCEPT !.op = "snapshot_latest", !.code = 200,
                                       !.file = snaps[1], !.body = disk[snaps[1]].bytes]
        /\ UNCHANGED <<now, disk, hist>>

\* GET /snapshot/<segment>: the only GET rule under /snapshot/ is the static
\* "latest"; any other segment matches the POST-only rule and is refused
get_snapshot(segment, order) ==
    IF segment = "latest" THEN snapshot_latest(order)
    ELSE /\ resp' = [NoResp EXCEPT !.op = "get_snapshot", !.session = segment,
                                   !.code = 405]
         /\ UNCHANGED <<now, disk, hist>>

\* GET /video/<path:filename>
serve_video(filename) ==
    /\ resp' = IF ~Exists(disk, filename)
               THEN [NoResp EXCEPT !.op = "video", !.code = 404, !.ok = FALSE,
                                   !.keys = {"ok", "error"}, !.file = filename]
               ELSE [NoResp EXCEPT !.op = "video", !.code = 200, !.file = filename,
                                   !.body = disk[filename].bytes]
    /\ UNCHANGED <<now, disk, hist>>

\* ---------------------------------------------------- concurrent requests
\* Requests handled at the same time (threaded server, no lock anywhere):
\* each handler advances one system call at a time.
Arrives(i) ==
    /\ reqs[i].kind = "idle"
    /\ \A j \in ReqIds : j < i => reqs[j].kind # "idle"

Fault(op, session_id) ==
    [NoResp EXCEPT !.op = op, !.session = session_id, !.code = 500]

\* upload_chunk, open(partial_path, "ab")
UploadOpen(i, session_id, data) ==
    LET partial_path == SessionPath(session_id, PartialExt)
        d2 == OpenAppend(disk, partial_path, now)
    IN  /\ Arrives(i)
        /\ now < MaxTime
        /\ disk' = d2
        /\ now' = IF d2 # disk THEN now + 1 ELSE now
        /\ reqs' = [reqs EXCEPT ![i] =
                       [IdleReq EXCEPT !.kind = "upload", !.session = session_id,
                                       !.pc = "write", !.data = data, !.fd = PartialExt]]
        /\ UNCHANGED <<resp, sent, consumed, renames, xcodeRuns, xcodeOk, snapLog>>

\* upload_chunk, f.write(request.get_data()): the bytes reach the file the
\* handle was opened on, whatever it is named by now
UploadWrite(i) ==
    LET r == reqs[i]
    IN  /\ r.kind = "upload" /\ r.pc = "write"
        /\ now < MaxTime
        /\ disk' = IF r.fd \in Exts
                   THEN WriteAppend(disk, SessionPath(r.session, r.fd), r.data, now)
                   ELSE disk
        /\ now' = now + 1
        /\ reqs' = [reqs EXCEPT ![i].pc = "close"]
        /\ UNCHANGED <<resp, sent, consumed, renames, xcodeRuns, xcodeOk, snapLog>>

\* upload_chunk, leaving the with block and os.path.getsize(partial_path)
UploadClose(i) ==
    LET r == reqs[i]
        partial_path == SessionPath(r.session, PartialExt)
    IN  /\ r.kind = "upload" /\ r.pc = "close"
        /\ reqs' = [reqs EXCEPT ![i].pc = "done", ![i].fd = "none",
                                ![i].resp =
                                    IF Exists(disk, partial_path)
                                    THEN [NoResp EXCEPT !.op = "upload", !.session = r.session,
                                                        !.code = 200,
                                                        !.keys = {"X-Received-Bytes"},
                                                        !.received = Len(disk[partial_path].bytes)]
                                    ELSE Fault("upload", r.session)]
        /\ UNCHANGED <<now, disk, resp, sent, consumed, renames, xcodeRuns, xcodeOk, snapLog>>

\* finalize, the first test: neither file exists -> 404
FinalizeBegin(i, session_id) ==
    LET partial_path == SessionPath(session_id, PartialExt)
        webm_path == SessionPath(session_id, WebmExt)
        started == [IdleReq EXCEPT !.kind = "finalize", !.session = session_id]
    IN  /\ Arrives(i)
        /\ reqs' = [reqs EXCEPT ![i] =
                       IF ~Exists(disk, partial_path) /\ ~Exists(disk, webm_path)
                       THEN [started EXCEPT !.pc = "done",
                                            !.resp = FinalizeNotFound(session_id)]
                       ELSE [started EXCEPT !.pc = "check_webm",
                                            !.onlyPartial = Exists(disk, partial_path)
                                                             /\ ~Exists(disk, webm_path)]]
        /\ UNCHANGED <<now, disk, resp, sent, consumed, renames, xcodeRuns, xcodeOk, snapLog>>

\* finalize, "if os.path.exists(webm_path)": the idempotent answer
FinalizeCheckWebm(i) ==
    LET r == reqs[i]
        webm_path == SessionPath(r.session, WebmExt)
    IN  /\ r.kind = "finalize" /\ r.pc = "check_webm"
        /\ reqs' = IF Exists(disk, webm_path)
                   THEN [reqs EXCEPT ![i].pc = "done",
                                     ![i].resp = FinalizeAlready(disk, r.session)]
                   ELSE [reqs EXCEPT ![i].pc = "check_partial"]
        /\ UNCHANGED <<now, disk, resp, sent, consumed, renames, xcodeRuns, xcodeOk, snapLog>>

\* finalize, "if os.path.exists(partial_path)"
FinalizeCheckPartial(i) ==
    LET r == reqs[i]
        partial_path == SessionPath(r.session, PartialExt)
    IN  /\ r.kind = "finalize" /\ r.pc = "check_partial"
        /\ reqs' = [reqs EXCEPT ![i].pc = IF Exists(disk, partial_path)
                                          THEN "move" ELSE "transcode"]
        /\ UNCHANGED <<now, disk, resp, sent, consumed, renames, xcodeRuns, xcodeOk, snapLog>>

\* what becomes of an open handle when the partial of its session is renamed
FdAfterMove(r, session_id) ==
    IF r.session # session_id THEN r.fd
    ELSE IF r.fd = PartialExt THEN WebmExt
    ELSE IF r.fd = WebmExt THEN "unlinked"
    ELSE r.fd

\* finalize, shutil.move(partial_path, webm_path): the rename fails with
\* FileNotFoundError when the partial is gone, and nothing catches it
FinalizeMove(i) ==
    LET r == reqs[i]
        partial_path == SessionPath(r.session, PartialExt)
        webm_path == SessionPath(r.session, WebmExt)
    IN  /\ r.kind = "finalize" /\ r.pc = "move"
        /\ IF ~Exists(disk, partial_path)
           THEN /\ reqs' = [reqs EXCEPT ![i].pc = "done",
                                        ![i].resp = Fault("finalize", r.session)]
                /\ UNCHANGED <<disk, renames>>
           ELSE /\ disk' = Move(disk, partial_path, webm_path)
                /\ renames' = [renames EXCEPT ![r.session] = @ + 1]
                /\ reqs' = [j \in ReqIds |->
                               IF j = i THEN [r EXCEPT !.pc = "transcode"]
                               ELSE [reqs[j] EXCEPT !.fd = FdAfterMove(reqs[j], r.session)]]
        /\ UNCHANGED <<now, resp, sent, consumed, xcodeRuns, xcodeOk, snapLog>>

\* finalize -> _finalize_to_mp4: the version probe and the start of ffmpeg.
\* Without a binary, or when ffmpeg exits before opening its output, the
\* handler answers at once; otherwise the output file is created.
FinalizeLaunch(i, outcome) ==
    LET r == reqs[i]
        webm_path == SessionPath(r.session, WebmExt)
        ran == FfmpegAvailable(outcome)
        opens == outcome \in {"ok", "fail_partial"} /\ Exists(disk, webm_path)
    IN  /\ r.kind = "finalize" /\ r.pc = "transcode"
        /\ opens => now < MaxTime
        /\ disk' = IF opens THEN FfmpegOpenOutput(disk, webm_path, now) ELSE disk
        /\ now' = IF opens THEN now + 1 ELSE now
        /\ xcodeRuns' = [xcodeRuns EXCEPT ![r.session] = IF ran THEN @ + 1 ELSE @]
        /\ reqs' = IF opens
                   THEN [reqs EXCEPT ![i].pc = "encoding", ![i].outcome = outcome]
                   ELSE [reqs EXCEPT ![i].pc = "done", ![i].outcome = outcome,
                                     ![i].resp = FinalizeFresh(disk, r.session, Null)]
        /\ UNCHANGED <<resp, sent, consumed, renames, xcodeOk, snapLog>>

\* ffmpeg ends (output completed and exit 0, or left as it is and exit
\* non-zero) and finalize builds its answer
FinalizeEncoded(i) ==
    LET r == reqs[i]
        webm_path == SessionPath(r.session, WebmExt)
        good == r.outcome = "ok"
        after == IF good THEN FfmpegWriteOutput(disk, webm_path, now) ELSE disk
    IN  /\ r.kind = "finalize" /\ r.pc = "encoding"
        /\ good => now < MaxTime
        /\ disk' = after
        /\ now' = IF good THEN now + 1 ELSE now
        /\ xcodeOk' = [xcodeOk EXCEPT ![r.session] = @ \/ good]
        /\ reqs' = [reqs EXCEPT ![i].pc = "done",
                                ![i].resp = FinalizeFresh(after, r.session,
                                                FinalizeToMp4(after, disk, webm_path, r.outcome))]
        /\ UNCHANGED <<resp, sent, consumed, renames, xcodeRuns, snapLog>>

\* ---------------------------------------------------------- specifications
\* the write requests, one handled at a time.  None of them reads the clock
\* or a snapshot, so time moves with the writes only and one snapshot body
\* stands for all.
Next ==
    \/ \E s \in Sessions, b \in Bodies : upload_chunk(s, b)
    \/ \E s \in Sessions, o \in TranscoderOutcomes : finalize(s, o)
    \/ \E s \in Sessions : snapshot(s, <<1>>)

Spec == Init /\ [][Next]_vars

\* the video contract with its listings, one request handled at a time
NextList ==
    \/ Tick
    \/ \E s \in Sessions, b \in Bodies : upload_chunk(s, b)
    \/ \E s \in Sessions, o \in TranscoderOutcomes : finalize(s, o)
    \/ \E o \in Orders : status(o)
    \/ \E o \in Orders : latest(o)

SpecList == Init /\ [][NextList]_vars

\* the snapshot contract: snapshot uploads and the snapshot reads
NextSnap ==
    \/ Tick
    \/ \E s \in Sessions, b \in Bodies : snapshot(s, b)
    \/ \E seg \in Sessions \cup {"latest"}, o \in Orders : get_snapshot(seg, o)
    \/ \E s \in Sessions : serve_video(SessionPath(s, JpgExt))

SpecSnap == Init /\ [][NextSnap]_vars

\* uploads and finalizes overlapping in time
NextConc ==
    \/ \E i \in ReqIds, s \in Sessions, b \in Bodies : UploadOpen(i, s, b)
    \/ \E i \in ReqIds : UploadWrite(i)
    \/ \E i \in ReqIds : UploadClose(i)
    \/ \E i \in ReqIds, s \in Sessions : FinalizeBegin(i, s)
    \/ \E i \in ReqIds : FinalizeCheckWebm(i)
    \/ \E i \in ReqIds : FinalizeCheckPartial(i)
    \/ \E i \in ReqIds : FinalizeMove(i)
    \/ \E i \in ReqIds, o \in TranscoderOutcomes : FinalizeLaunch(i, o)
    \/ \E i \in ReqIds : FinalizeEncoded(i)

SpecConc == Init /\ [][NextConc]_vars
\* ------------------------------------------------------------ properties
WebmPath(s) == SessionPath(s, WebmExt)
PartialPath(s) == SessionPath(s, PartialExt)
FailingOutcomes == {"missing", "fail", "fail_partial"}

\* C1: after N >= 1 chunks uploaded one after another for a session that had
\* no files, finalize leaves s.webm holding exactly the chunk bodies in upload
\* order, so its length is the sum of the chunk lengths.
C1_ConcatInOrder ==
    \A s \in Sessions :
        Exists(disk, WebmPath(s)) =>
            /\ Len(consumed[s]) >= 1
            /\ disk[WebmPath(s)].bytes = Flatten(consumed[s])
            /\ Len(disk[WebmPath(s)].bytes) = SumLen(consumed[s])

C1_Witness ==
    \E s \in Sessions :
        /\ resp.op = "finalize" /\ resp.session = s /\ "at" \in resp.keys
        /\ Exists(disk, WebmPath(s))
        /\ Len(consumed[s]) = 2
        /\ consumed[s][1] # consumed[s][2]

\* C2: once s.webm exists (a first finalize succeeded), every later finalize
\* for s, whatever uploads and snapshots came in between, answers ok with the
\* same name s.webm and changes nothing in the storage directory.
C2_FinalizeIdempotent ==
    [][\A s \in Sessions, o \in TranscoderOutcomes :
          (resp'.op = "finalize" /\ Exists(disk, WebmPath(s)) /\ finalize(s, o)) =>
              /\ disk' = disk
              /\ resp'.code = 200 /\ resp'.ok
              /\ resp'.webm = Basename(WebmPath(s))]_vars

C2_Witness ==
    \E s \in Sessions :
        /\ resp.op = "finalize" /\ resp.session = s /\ resp.ok
        /\ "at" \notin resp.keys
        /\ Exists(disk, PartialPath(s))
        /\ Exists(disk, SessionPath(s, JpgExt))

\* C3: finalize for a session with neither a partial nor a finalized file
\* answers 404 with ok = false, renames nothing, starts no transcoder and
\* leaves the storage directory as it was.
C3_FinalizeNotFound ==
    [][\A s \in Sessions, o \in TranscoderOutcomes :
          (resp'.op = "finalize" /\ ~Exists(disk, PartialPath(s))
               /\ ~Exists(disk, WebmPath(s)) /\ finalize(s, o)) =>
              /\ resp'.code = 404 /\ ~resp'.ok
              /\ disk' = disk
              /\ renames' = renames
              /\ xcodeRuns' = xcodeRuns]_vars

C3_Witness ==
    \E s, t \in Sessions :
        /\ s # t
        /\ resp.op = "finalize" /\ resp.session = s /\ resp.code = 404
        /\ Exists(disk, WebmPath(t))
        /\ Exists(disk, SessionPath(s, JpgExt))

RECURSIVE SnapsOf(_, _)
SnapsOf(log, s) ==
    IF log = <<>> THEN <<>>
    ELSE (IF Head(log)[1] = s THEN <<Head(log)[2]>> ELSE <<>>) \o SnapsOf(Tail(log), s)

LastOf(seq) == seq[Len(seq)]

\* C4 as stated: after snapshot uploads for s, GET /snapshot/{s} returns the
\* body of the last one.
C4_FetchBySession ==
    (resp.op = "get_snapshot" /\ SnapsOf(snapLog, resp.session) # <<>>) =>
        (resp.code = 200 /\ resp.body = LastOf(SnapsOf(snapLog, resp.session)))

\* C4 amended: after a snapshot upload for s followed by a second one, the
\* file s.jpg holds exactly the second body, GET /video/s.jpg returns it, and
\* GET /snapshot/latest returns the body of the most recent snapshot upload.
C4_LastSnapshotOnly ==
    /\ \A s \in Sessions :
           SnapsOf(snapLog, s) # <<>> =>
               /\ Exists(disk, SessionPath(s, JpgExt))
               /\ disk[SessionPath(s, JpgExt)].bytes = LastOf(SnapsOf(snapLog, s))
    /\ (resp.op = "video" /\ SnapsOf(snapLog, resp.file[1]) # <<>>) =>
           (resp.code = 200 /\ resp.body = LastOf(SnapsOf(snapLog, resp.file[1])))
    /\ (resp.op = "snapshot_latest" /\ snapLog # <<>>) =>
           (resp.code = 200 /\ resp.body = LastOf(snapLog)[2])

C4_Witness ==
    \E s, t \in Sessions :
        /\ s # t
        /\ Len(snapLog) = 3
        /\ snapLog[1][1] = t /\ snapLog[2][1] = s /\ snapLog[3][1] = s
        /\ snapLog[2][2] # snapLog[3][2]
        /\ resp.op = "snapshot_latest" /\ resp.code = 200
        /\ resp.body = snapLog[3][2]

\* C5: in every /status answer, an entry listed before another one belongs
\* to a file modified strictly later, also within one second.
C5_StrictlyDescending ==
    resp.op = "status" =>
        \A i, j \in 1..Len(resp.videos) :
            i < j => disk[resp.videos[i].filename].mtime > disk[resp.videos[j].filename].mtime

\* the session owning the most recently modified video artifact
VideoPaths == {SessionPath(s, e) : s \in Sessions, e \in {WebmExt, Mp4Ext}}
MostRecent(s) ==
    \E p \in VideoPaths :
        /\ p[1] = s /\ Exists(disk, p)
        /\ \A q \in VideoPaths : Exists(disk, q) => disk[q].mtime <= disk[p].mtime

\* C6: when the most recent session has both s.webm and s.mp4, /latest
\* serves s.mp4.
C6_LatestPrefersOwnMp4 ==
    (resp.op = "latest" /\ resp.code = 200) =>
        \A s \in Sessions :
            (MostRecent(s) /\ Exists(disk, WebmPath(s)) /\ Exists(disk, SessionPath(s, Mp4Ext)))
                => resp.file = Basename(SessionPath(s, Mp4Ext))

\* C8: under any interleaving, the bytes of a finalized s.webm never change
\* once the file exists.
C8_FinalizedNeverChanges ==
    [][\A s \in Sessions :
          Exists(disk, WebmPath(s)) => disk'[WebmPath(s)].bytes = disk[WebmPath(s)].bytes]_vars

\* C9: with finalize requests for s running concurrently while only the
\* partial exists, the partial is renamed once, the transcoder is started at
\* most once, and each of those requests answers ok with webm = s.webm.
C9_ConcurrentFinalize ==
    \A s \in Sessions :
        /\ renames[s] <= 1
        /\ xcodeRuns[s] <= 1
        /\ \A i \in ReqIds :
               (reqs[i].kind = "finalize" /\ reqs[i].session = s
                    /\ reqs[i].onlyPartial /\ reqs[i].pc = "done") =>
                   (reqs[i].resp.ok /\ reqs[i].resp.webm = Basename(WebmPath(s)))

\* C10: a finalize answer names s.mp4 only if a transcoder run for s has
\* completed successfully.
C10_Mp4OnlyAfterSuccess ==
    \A i \in ReqIds :
        (reqs[i].kind = "finalize" /\ reqs[i].pc = "done" /\ reqs[i].resp.mp4 # Null)
            => xcodeOk[reqs[i].session]
====
